---- MODULE Spec2Model ----
(***************************************************************************)
(* A model of the pcapng decoder in src/src/lib.rs: the alignment helper   *)
(* dword_aligned, the block framer read_block, the option reader           *)
(* read_option and the four per-block decoders.                            *)
(*                                                                         *)
(* Machine integers keep their width.  TLC's integers stop at 2^31-1, so   *)
(* a machine word is a little-endian sequence of 16-bit limbs: a u16 is a  *)
(* plain number, a u32 has 2 limbs, a u64 has 4 limbs and a uint has       *)
(* wordLimbs limbs (2 on a 32-bit build, 4 on a 64-bit build).  Arithmetic *)
(* on words wraps at the word's width, which is what +, - did on every     *)
(* build of the Rust this source is written in (uint, std::io::Reader,     *)
(* derive(Show): there were no overflow checks yet).                       *)
(*                                                                         *)
(* The reader is std::io::BufReader over a byte vector: buf and pos.  A    *)
(* read that needs more bytes than are left fails with an IoError and      *)
(* leaves the reader at the end of the buffer.  Memory exhaustion in       *)
(* read_exact's allocation is not modelled.                                *)
(***************************************************************************)
EXTENDS Integers, Sequences, FiniteSets, TLC

VARIABLES
    target,     \* the entry point the caller applies to the reader
    wordLimbs,  \* width of uint in 16-bit limbs: 2 (32-bit) or 4 (64-bit)
    input,      \* the description the byte buffer was built from
    buf,        \* the reader's bytes
    pos,        \* the reader's position: bytes consumed so far
    returned,   \* the values of the successful calls so far, in order
    ret         \* the result of the last call

vars == <<target, wordLimbs, input, buf, pos, returned, ret>>

-----------------------------------------------------------------------------
(* Bounds of the model *)

MaxN == 5          \* dword_aligned is applied to 0..MaxN and to the MaxN+1 largest words
MaxTotalLen == 16  \* declared total_length of a block: 0..MaxTotalLen
MaxBlocks == 2     \* blocks in a stream
MaxOpts == 2       \* option records in a payload
MaxOptLen == 8     \* declared length of an option value: 0..MaxOptLen
MaxCut == 1        \* bytes missing from the end of the buffer

-----------------------------------------------------------------------------
(* Machine words *)

Limb == 256 * 256

ZeroWord(k) == [i \in 1..k |-> 0]

MaxWord(k) == [i \in 1..k |-> Limb - 1]

\* the word of k limbs holding the number v < 2^31
FromNat(v, k) ==
    [i \in 1..k |-> IF i = 1 THEN v % Limb ELSE IF i = 2 THEN v \div Limb ELSE 0]

RECURSIVE AddFrom(_, _, _)
AddFrom(w, i, carry) ==
    IF i > Len(w) THEN w
    ELSE LET s == w[i] + carry
         IN  AddFrom([w EXCEPT ![i] = s % Limb], i + 1, s \div Limb)

\* w + c, wrapping at the width of w
WrappingAdd(w, c) == AddFrom(w, 1, c)

RECURSIVE SubFrom(_, _, _)
SubFrom(w, i, borrow) ==
    IF i > Len(w) THEN w
    ELSE LET s == w[i] - borrow
         IN  IF s >= 0
             THEN SubFrom([w EXCEPT ![i] = s], i + 1, 0)
             ELSE SubFrom([w EXCEPT ![i] = s + Limb], i + 1, 1)

\* w - c, wrapping at the width of w
WrappingSub(w, c) == SubFrom(w, 1, c)

\* w & !3
AndNot3(w) == [w EXCEPT ![1] = w[1] - (w[1] % 4)]

\* `w as uint`: zero-extended (or cut) to k limbs
AsUint(w, k) == [i \in 1..k |-> IF i <= Len(w) THEN w[i] ELSE 0]

\* a word that is a byte count the buffer could hold: its number, else -1
Small(w) == IF \A i \in 2..Len(w) : w[i] = 0 THEN w[1] ELSE -1

-----------------------------------------------------------------------------
(* The reader: std::io::Reader over a byte buffer, position p (0-based) *)

Bytes(b, p, n) == SubSeq(b, p + 1, p + n)

\* a failed read: the reader is left at the end of the buffer
ShortRead(b) == [ok |-> FALSE, val |-> <<>>, pos |-> Len(b)]

read_byte(b, p) ==
    IF p + 1 > Len(b) THEN ShortRead(b)
    ELSE [ok |-> TRUE, val |-> b[p + 1], pos |-> p + 1]

read_le_u16(b, p) ==
    IF p + 2 > Len(b) THEN ShortRead(b)
    ELSE [ok |-> TRUE, val |-> b[p + 1] + 256 * b[p + 2], pos |-> p + 2]

\* n bytes (n even) as a little-endian word of n/2 limbs
read_le_word(b, p, n) ==
    IF p + n > Len(b) THEN ShortRead(b)
    ELSE [ok |-> TRUE,
          val |-> [i \in 1..(n \div 2) |-> b[p + 2 * i - 1] + 256 * b[p + 2 * i]],
          pos |-> p + n]

read_le_u32(b, p) == read_le_word(b, p, 4)

read_le_u64(b, p) == read_le_word(b, p, 8)

\* read_le_uint_n(6): six bytes, zero-extended to a u64
read_le_uint_6(b, p) ==
    LET r == read_le_word(b, p, 6)
    IN  IF r.ok THEN [r EXCEPT !.val = AsUint(r.val, 4)] ELSE r

\* read_exact(n) for a uint n: exactly n bytes, or an IoError
read_exact(b, p, n) ==
    IF Small(n) >= 0 /\ p + Small(n) <= Len(b)
    THEN [ok |-> TRUE, val |-> Bytes(b, p, Small(n)), pos |-> p + Small(n)]
    ELSE ShortRead(b)

\* Vec::truncate(n) for a uint n: longer vectors are cut, shorter ones kept
truncate(v, n) ==
    IF Small(n) >= 0 /\ Small(n) < Len(v) THEN SubSeq(v, 1, Small(n)) ELSE v

\* BufReader::eof
eof(b, p) == p >= Len(b)

-----------------------------------------------------------------------------
(* fn dword_aligned(n: uint) -> uint *)

\* dword_aligned without the + 3: rounds down
dword_aligned_floor(n) == AndNot3(n)

dword_aligned(n) == AndNot3(WrappingAdd(n, 3))

-----------------------------------------------------------------------------
(* pub fn read_block(r) -> Result<(u32, Vec<u8>), IoError> *)

BlockIo(b) ==
    [status |-> "Io", block_type |-> <<>>, data |-> <<>>, pos |-> Len(b),
     total_len |-> <<>>, trailer |-> <<>>]

\* read_block without data.truncate(data_len)
read_block_no_truncate(b, p, wl) ==
    LET ty == read_le_u32(b, p) IN
    IF ~ty.ok THEN BlockIo(b) ELSE
    LET tl == read_le_u32(b, ty.pos) IN
    IF ~tl.ok THEN BlockIo(b) ELSE
    LET data_len == WrappingSub(tl.val, 12)
        d == read_exact(b, tl.pos, dword_aligned(AsUint(data_len, wl)))
    IN
    IF ~d.ok THEN [BlockIo(b) EXCEPT !.total_len = tl.val] ELSE
    LET tr == read_le_u32(b, d.pos) IN
    IF ~tr.ok THEN [BlockIo(b) EXCEPT !.total_len = tl.val] ELSE
    IF tr.val # tl.val
    THEN [status |-> "Panic", block_type |-> <<>>, data |-> <<>>, pos |-> tr.pos,
          total_len |-> tl.val, trailer |-> tr.val]
    ELSE [status |-> "Ok", block_type |-> ty.val, data |-> d.val, pos |-> tr.pos,
          total_len |-> tl.val, trailer |-> tr.val]

\* read_block that lets a failed read of the trailing length pass
read_block_trailer_optional(b, p, wl) ==
    LET ty == read_le_u32(b, p) IN
    IF ~ty.ok THEN BlockIo(b) ELSE
    LET tl == read_le_u32(b, ty.pos) IN
    IF ~tl.ok THEN BlockIo(b) ELSE
    LET data_len == WrappingSub(tl.val, 12)
        d == read_exact(b, tl.pos, dword_aligned(AsUint(data_len, wl)))
    IN
    IF ~d.ok THEN [BlockIo(b) EXCEPT !.total_len = tl.val] ELSE
    LET data == truncate(d.val, AsUint(data_len, wl))
        tr == read_le_u32(b, d.pos)
    IN
    IF tr.ok /\ tr.val # tl.val
    THEN [status |-> "Panic", block_type |-> <<>>, data |-> <<>>, pos |-> tr.pos,
          total_len |-> tl.val, trailer |-> tr.val]
    ELSE [status |-> "Ok", block_type |-> ty.val, data |-> data, pos |-> tr.pos,
          total_len |-> tl.val, trailer |-> tr.val]

\* the result of one call; total_len and trailer are the call's locals
read_block(b, p, wl) ==
    LET ty == read_le_u32(b, p) IN
    IF ~ty.ok THEN BlockIo(b) ELSE
    LET tl == read_le_u32(b, ty.pos) IN
    IF ~tl.ok THEN BlockIo(b) ELSE
    LET data_len == WrappingSub(tl.val, 12)
        d == read_exact(b, tl.pos, dword_aligned(AsUint(data_len, wl)))
    IN
    IF ~d.ok THEN [BlockIo(b) EXCEPT !.total_len = tl.val] ELSE
    LET data == truncate(d.val, AsUint(data_len, wl))
        tr == read_le_u32(b, d.pos)
    IN
    IF ~tr.ok THEN [BlockIo(b) EXCEPT !.total_len = tl.val] ELSE
    IF tr.val # tl.val
    THEN [status |-> "Panic", block_type |-> <<>>, data |-> <<>>, pos |-> tr.pos,
          total_len |-> tl.val, trailer |-> tr.val]
    ELSE [status |-> "Ok", block_type |-> ty.val, data |-> data, pos |-> tr.pos,
          total_len |-> tl.val, trailer |-> tr.val]

-----------------------------------------------------------------------------
(* fn read_option(r) -> Result<(u16, Vec<u8>), IoError> *)

OptionIo(b) == [status |-> "Io", code |-> 0, data |-> <<>>, pos |-> Len(b)]

\* read_option without data.truncate(len)
read_option_no_truncate(b, p, wl) ==
    LET code == read_le_u16(b, p) IN
    IF ~code.ok THEN OptionIo(b) ELSE
    LET len16 == read_le_u16(b, code.pos) IN
    IF ~len16.ok THEN OptionIo(b) ELSE
    LET len == FromNat(len16.val, wl)
        d == read_exact(b, len16.pos, dword_aligned(len))
    IN
    IF ~d.ok THEN OptionIo(b)
    ELSE [status |-> "Ok", code |-> code.val, data |-> d.val, pos |-> d.pos]

read_option(b, p, wl) ==
    LET code == read_le_u16(b, p) IN
    IF ~code.ok THEN OptionIo(b) ELSE
    LET len16 == read_le_u16(b, code.pos) IN
    IF ~len16.ok THEN OptionIo(b) ELSE
    LET len == FromNat(len16.val, wl)
        d == read_exact(b, len16.pos, dword_aligned(len))
    IN
    IF ~d.ok THEN OptionIo(b)
    ELSE [status |-> "Ok", code |-> code.val, data |-> truncate(d.val, len),
          pos |-> d.pos]

-----------------------------------------------------------------------------
(* String::from_utf8: the bytes are kept when they are well-formed UTF-8 *)

Cont(x) == x \in 128..191

RECURSIVE Utf8From(_, _)
Utf8From(v, i) ==
    IF i > Len(v) THEN TRUE
    ELSE LET x == v[i] IN
         IF x < 128 THEN Utf8From(v, i + 1)
         ELSE IF x \in 194..223
         THEN i + 1 <= Len(v) /\ Cont(v[i + 1]) /\ Utf8From(v, i + 2)
         ELSE IF x \in 224..239
         THEN /\ i + 2 <= Len(v)
              /\ v[i + 1] \in (IF x = 224 THEN 160..191
                               ELSE IF x = 237 THEN 128..159 ELSE 128..191)
              /\ Cont(v[i + 2])
              /\ Utf8From(v, i + 3)
         ELSE IF x \in 240..244
         THEN /\ i + 3 <= Len(v)
              /\ v[i + 1] \in (IF x = 240 THEN 144..191
                               ELSE IF x = 244 THEN 128..143 ELSE 128..191)
              /\ Cont(v[i + 2])
              /\ Cont(v[i + 3])
              /\ Utf8From(v, i + 4)
         ELSE FALSE

from_utf8_ok(v) == Utf8From(v, 1)

-----------------------------------------------------------------------------
(* The match on the option code of each decoder.  status is "Ok" with the  *)
(* option built, "Break" for the terminator, or the error returned.        *)

Built(variant, value) == [status |-> "Ok", opt |-> [variant |-> variant, value |-> value]]

NotBuilt(status) == [status |-> status, opt |-> <<>>]

Text(variant, data) ==
    IF from_utf8_ok(data) THEN Built(variant, data) ELSE NotBuilt("Utf8Error")

SectionHeaderOption_accept_all(code, data) ==
    IF code = 0 THEN NotBuilt("Break")
    ELSE Text(CASE code = 1 -> "Comment" [] code = 2 -> "Hardware"
                [] code = 3 -> "OS" [] OTHER -> "UserApplication", data)

SectionHeaderOption_swapped(code, data) ==
    IF code = 0 THEN NotBuilt("Break")
    ELSE IF code \in 1..4
    THEN Text(CASE code = 1 -> "Comment" [] code = 2 -> "OS"
                [] code = 3 -> "Hardware" [] code = 4 -> "UserApplication", data)
    ELSE NotBuilt("UnknownOption")

SectionHeaderOption(code, data) ==
    IF code = 0 THEN NotBuilt("Break")
    ELSE IF code \in 1..4
    THEN Text(CASE code = 1 -> "Comment" [] code = 2 -> "Hardware"
                [] code = 3 -> "OS" [] code = 4 -> "UserApplication", data)
    ELSE NotBuilt("UnknownOption")

InterfaceDescriptionOption(code, data) ==
    IF code = 0 THEN NotBuilt("Break")
    ELSE IF code \in 1..3 \/ code = 12
    THEN Text(CASE code = 1 -> "Comment" [] code = 2 -> "Name"
                [] code = 3 -> "Description" [] code = 12 -> "OS", data)
    ELSE IF code = 4
    THEN LET ip == read_le_u32(data, 0) IN
         IF ~ip.ok THEN NotBuilt("Io") ELSE
         LET mask == read_le_u32(data, ip.pos) IN
         IF ~mask.ok THEN NotBuilt("Io")
         ELSE Built("Ipv4Addr", <<ip.val, mask.val>>)
    ELSE IF code = 6
    THEN LET mac == read_le_uint_6(data, 0) IN
         IF ~mac.ok THEN NotBuilt("Io") ELSE Built("MacAddr", mac.val)
    ELSE IF code = 9
    THEN LET res == read_byte(data, 0) IN
         IF ~res.ok THEN NotBuilt("Io") ELSE Built("TsResolution", res.val)
    ELSE NotBuilt("UnknownOption")

EnhancedPacketBlockOption(code, data) ==
    IF code = 0 THEN NotBuilt("Break")
    ELSE IF code = 1 THEN Text("Comment", data)
    ELSE NotBuilt("UnknownOption")

InterfaceStatisticsOption(code, data) ==
    IF code = 0 THEN NotBuilt("Break")
    ELSE IF code = 1 THEN Text("Comment", data)
    ELSE IF code \in 2..8
    THEN LET n == read_le_u64(data, 0) IN
         IF ~n.ok THEN NotBuilt("Io")
         ELSE Built(CASE code = 2 -> "StartTime" [] code = 3 -> "EndTime"
                      [] code = 4 -> "Received" [] code = 5 -> "Dropped"
                      [] code = 6 -> "FilterAccepted" [] code = 7 -> "OSDropped"
                      [] code = 8 -> "Delivered", n.val)
    ELSE NotBuilt("UnknownOption")

OptionOf(kind, code, data) ==
    CASE kind = "SectionHeaderBlock" -> SectionHeaderOption(code, data)
      [] kind = "InterfaceDescriptionBlock" -> InterfaceDescriptionOption(code, data)
      [] kind = "EnhancedPacketBlock" -> EnhancedPacketBlockOption(code, data)
      [] kind = "InterfaceStatisticsBlock" -> InterfaceStatisticsOption(code, data)

-----------------------------------------------------------------------------
(* The option loop of the four decoders: loop { read_option; match code }  *)

Failed(status, p) == [status |-> status, block |-> <<>>, options |-> <<>>, pos |-> p]

RECURSIVE option_loop(_, _, _, _, _)
option_loop(kind, b, p, wl, options) ==
    LET o == read_option(b, p, wl) IN
    IF o.status # "Ok" THEN Failed("Io", o.pos) ELSE
    LET m == OptionOf(kind, o.code, o.data) IN
    IF m.status = "Break"
    THEN [status |-> "Ok", block |-> <<>>, options |-> options, pos |-> o.pos]
    ELSE IF m.status # "Ok" THEN Failed(m.status, o.pos)
    ELSE option_loop(kind, b, o.pos, wl, Append(options, m.opt))

\* if !r.eof() { loop { ... } }
read_options(kind, b, p, wl) ==
    IF eof(b, p)
    THEN [status |-> "Ok", block |-> <<>>, options |-> <<>>, pos |-> p]
    ELSE option_loop(kind, b, p, wl, <<>>)

-----------------------------------------------------------------------------
(* The four decoders *)

MAGIC == 439041101   \* 0x1A2B3C4D

SectionHeaderBlock_read(b, p, wl) ==
    LET magic == read_le_u32(b, p) IN
    IF ~magic.ok THEN Failed("Io", magic.pos) ELSE
    IF magic.val # FromNat(MAGIC, 2) THEN Failed("Panic", magic.pos) ELSE
    LET major_version == read_le_u16(b, magic.pos) IN
    IF ~major_version.ok THEN Failed("Io", major_version.pos) ELSE
    LET minor_version == read_le_u16(b, major_version.pos) IN
    IF ~minor_version.ok THEN Failed("Io", minor_version.pos) ELSE
    LET section_length == read_le_u64(b, minor_version.pos) IN
    IF ~section_length.ok THEN Failed("Io", section_length.pos) ELSE
    LET o == read_options("SectionHeaderBlock", b, section_length.pos, wl) IN
    IF o.status # "Ok" THEN o
    ELSE [o EXCEPT !.block = [magic |-> magic.val,
                              major_version |-> major_version.val,
                              minor_version |-> minor_version.val,
                              section_length |-> section_length.val,
                              options |-> o.options]]

InterfaceDescriptionBlock_read(b, p, wl) ==
    LET link_type == read_le_u16(b, p) IN
    IF ~link_type.ok THEN Failed("Io", link_type.pos) ELSE
    LET reserved == read_le_u16(b, link_type.pos) IN
    IF ~reserved.ok THEN Failed("Io", reserved.pos) ELSE
    LET snap_len == read_le_u32(b, reserved.pos) IN
    IF ~snap_len.ok THEN Failed("Io", snap_len.pos) ELSE
    LET o == read_options("InterfaceDescriptionBlock", b, snap_len.pos, wl) IN
    IF o.status # "Ok" THEN o
    ELSE [o EXCEPT !.block = [link_type |-> link_type.val,
                              snap_len |-> snap_len.val,
                              options |-> o.options]]

EnhancedPacketBlock_read(b, p, wl) ==
    LET interface_id == read_le_u32(b, p) IN
    IF ~interface_id.ok THEN Failed("Io", interface_id.pos) ELSE
    LET ts == read_le_u64(b, interface_id.pos) IN
    IF ~ts.ok THEN Failed("Io", ts.pos) ELSE
    LET cap_len == read_le_u32(b, ts.pos) IN
    IF ~cap_len.ok THEN Failed("Io", cap_len.pos) ELSE
    LET len == read_le_u32(b, cap_len.pos) IN
    IF ~len.ok THEN Failed("Io", len.pos) ELSE
    LET aligned_len == dword_aligned(AsUint(cap_len.val, wl))
        packet_data == read_exact(b, len.pos, aligned_len)
    IN
    IF ~packet_data.ok THEN Failed("Io", packet_data.pos) ELSE
    LET o == read_options("EnhancedPacketBlock", b, packet_data.pos, wl) IN
    IF o.status # "Ok" THEN o
    ELSE [o EXCEPT !.block = [interface_id |-> interface_id.val,
                              timestamp |-> ts.val,
                              captured_len |-> cap_len.val,
                              len |-> len.val,
                              data |-> truncate(packet_data.val, AsUint(cap_len.val, wl)),
                              options |-> o.options]]

InterfaceStatisticsBlock_read(b, p, wl) ==
    LET interface_id == read_le_u32(b, p) IN
    IF ~interface_id.ok THEN Failed("Io", interface_id.pos) ELSE
    LET ts == read_le_u64(b, interface_id.pos) IN
    IF ~ts.ok THEN Failed("Io", ts.pos) ELSE
    LET o == read_options("InterfaceStatisticsBlock", b, ts.pos, wl) IN
    IF o.status # "Ok" THEN o
    ELSE [o EXCEPT !.block = [interface_id |-> interface_id.val,
                              timestamp |-> ts.val,
                              options |-> o.options]]

-----------------------------------------------------------------------------
(* The inputs: byte buffers built from a description, as a capture file    *)
(* writer lays them out.  The description stays in `input`, so that a      *)
(* result can be compared with what was written.                           *)

Ceil4(n) == ((n + 3) \div 4) * 4

LE16(v) == <<v % 256, v \div 256>>

RECURSIVE LEWord(_)
LEWord(w) == IF w = <<>> THEN <<>> ELSE LE16(Head(w)) \o LEWord(Tail(w))

LE32(v) == LEWord(FromNat(v, 2))

Zeros(n) == [i \in 1..n |-> 0]

SeqsUpTo(S, k) == UNION {[1..n -> S] : n \in 0..k}

DropLast(b, n) == SubSeq(b, 1, IF Len(b) > n THEN Len(b) - n ELSE 0)

Decoders ==
    {"SectionHeaderBlock", "InterfaceDescriptionBlock",
     "InterfaceStatisticsBlock", "EnhancedPacketBlock"}

Targets == {"dword_aligned", "read_block", "read_option"} \cup Decoders

(* dword_aligned: the words next to 0 and next to the largest word *)
WordInputs(wl) ==
    {[n |-> FromNat(k, wl)] : k \in 0..MaxN}
        \cup {[n |-> WrappingSub(MaxWord(wl), k)] : k \in 0..MaxN}

(* read_block: a stream of blocks back to back.  Block i declares          *)
(* totals[i]; its payload is padded to a 4-byte boundary; the trailing     *)
(* length of block `corrupt` is off by one; the last `cut` bytes of the    *)
(* stream are missing.                                                     *)
StreamInputs ==
    {[totals |-> ts, corrupt |-> c, cut |-> k] :
        ts \in SeqsUpTo(0..MaxTotalLen, MaxBlocks) \ {<<>>},
        c \in 0..2, k \in 0..MaxCut}

TypeOf(i) == IF i = 1 THEN 168627466 ELSE i - 1

PayloadLen(t) == IF t >= 12 THEN t - 12 ELSE 0

PayloadOf(in, i) == [j \in 1..PayloadLen(in.totals[i]) |-> 16 * i + j]

BlockBytes(in, i) ==
    LE32(TypeOf(i)) \o LE32(in.totals[i]) \o PayloadOf(in, i)
        \o Zeros(Ceil4(PayloadLen(in.totals[i])) - PayloadLen(in.totals[i]))
        \o LE32(IF in.corrupt = i THEN in.totals[i] + 1 ELSE in.totals[i])

RECURSIVE BlocksFrom(_, _)
BlocksFrom(in, i) ==
    IF i > Len(in.totals) THEN <<>> ELSE BlockBytes(in, i) \o BlocksFrom(in, i + 1)

StreamBytes(in) == DropLast(BlocksFrom(in, 1), in.cut)

(* The decoders and read_option: fixed fields, then option records.        *)
(* Record i has code codes[i] and a value of RecLen(in, i) bytes, padded   *)
(* to a 4-byte boundary; the value is ASCII text, except that with accent  *)
(* = 1 record 1 starts with the two bytes of U+00E9 (cut to one byte, which *)
(* not UTF-8, when the value is one byte long).  With `term` a code-0      *)
(* record of length 0 follows the last record.                             *)
CodeSet(t) ==
    CASE t = "SectionHeaderBlock" -> 0..5
      [] t = "InterfaceDescriptionBlock" -> {0, 4, 6, 9, 12, 99}
      [] t = "InterfaceStatisticsBlock" -> {0, 1, 2, 8, 9}
      [] t = "EnhancedPacketBlock" -> {0, 1, 2}
      [] t = "read_option" -> {0, 1, 2}

HdrSet(t) ==
    CASE t = "SectionHeaderBlock" -> 1..3
      [] t = "EnhancedPacketBlock" -> 1..3
      [] OTHER -> {1}

ChainInputs(t) ==
    {[codes |-> cs, baseLen |-> l, accent |-> a, term |-> e, hdr |-> h, cut |-> k] :
        cs \in SeqsUpTo(CodeSet(t), MaxOpts), l \in 0..MaxOptLen,
        a \in 0..1, e \in BOOLEAN, h \in HdrSet(t), k \in 0..MaxCut}

RecLen(in, i) == (in.baseLen + i - 1) % (MaxOptLen + 1)

RecValue(in, i) ==
    [j \in 1..RecLen(in, i) |->
        IF in.accent = i /\ j = 1 THEN 195
        ELSE IF in.accent = i /\ j = 2 THEN 169
        ELSE 97 + ((7 * i + j) % 26)]

RecBytes(in, i) ==
    LE16(in.codes[i]) \o LE16(RecLen(in, i)) \o RecValue(in, i)
        \o Zeros(Ceil4(RecLen(in, i)) - RecLen(in, i))

RECURSIVE RecsFrom(_, _)
RecsFrom(in, i) ==
    IF i > Len(in.codes) THEN <<>> ELSE RecBytes(in, i) \o RecsFrom(in, i + 1)

\* the fixed fields written in front of the options
ShbMagic(in) == IF in.hdr = 3 THEN 1295788826 ELSE MAGIC

ShbMajor(in) == IF in.hdr = 2 THEN 258 ELSE 1

ShbMinor(in) == IF in.hdr = 2 THEN 3 ELSE 0

ShbSectionLength(in) == IF in.hdr = 2 THEN <<513, 0, 1027, 7>> ELSE MaxWord(4)

EpbCapLen(in) == IF in.hdr = 1 THEN 0 ELSE in.hdr + 1

EpbData(in) == [j \in 1..EpbCapLen(in) |-> 200 + j]

FixedBytes(t, in) ==
    CASE t = "SectionHeaderBlock" ->
            LE32(ShbMagic(in)) \o LE16(ShbMajor(in)) \o LE16(ShbMinor(in))
                \o LEWord(ShbSectionLength(in))
      [] t = "InterfaceDescriptionBlock" -> LE16(1) \o LE16(0) \o LE32(65535)
      [] t = "InterfaceStatisticsBlock" -> LE32(2) \o LEWord(<<1, 2, 3, 4>>)
      [] t = "EnhancedPacketBlock" ->
            LE32(2) \o LEWord(<<1, 2, 3, 4>>) \o LE32(EpbCapLen(in)) \o LE32(1500)
                \o EpbData(in) \o Zeros(Ceil4(EpbCapLen(in)) - EpbCapLen(in))
      [] t = "read_option" -> <<>>

Terminator(in) == IF in.term THEN LE16(0) \o LE16(0) ELSE <<>>

ChainBytes(t, in) ==
    DropLast(FixedBytes(t, in) \o RecsFrom(in, 1) \o Terminator(in), in.cut)

Inputs(t, wl) ==
    CASE t = "dword_aligned" -> WordInputs(wl)
      [] t = "read_block" -> StreamInputs
      [] OTHER -> ChainInputs(t)

BufferOf(t, in) ==
    CASE t = "dword_aligned" -> <<>>
      [] t = "read_block" -> StreamBytes(in)
      [] OTHER -> ChainBytes(t, in)

-----------------------------------------------------------------------------
(* The state machine: a reader over the buffer, and the caller's calls *)

Init ==
    \E t \in Targets, wl \in {2, 4} :
        \E in \in Inputs(t, wl) :
            /\ target = t
            /\ wordLimbs = wl
            /\ input = in
            /\ buf = BufferOf(t, in)
            /\ pos = 0
            /\ returned = <<>>
            /\ ret = [status |-> "none"]

\* dword_aligned applied to the input, then to its own result
Align ==
    /\ target = "dword_aligned"
    /\ Len(returned) < 2
    /\ returned' = Append(returned,
                          dword_aligned(IF returned = <<>> THEN input.n
                                        ELSE returned[Len(returned)]))
    /\ ret' = [status |-> "Ok"]
    /\ UNCHANGED <<target, wordLimbs, input, buf, pos>>

\* one call of read_block on the stream; a panic ends the caller
ReadBlock ==
    /\ target = "read_block"
    /\ ret.status # "Panic"
    /\ LET r == read_block(buf, pos, wordLimbs) IN
        /\ ret' = [status |-> r.status, start |-> pos,
                   total_len |-> r.total_len, trailer |-> r.trailer]
        /\ pos' = r.pos
        /\ returned' = IF r.status = "Ok"
                       THEN Append(returned, [block_type |-> r.block_type,
                                              data |-> r.data, start |-> pos,
                                              end |-> r.pos])
                       ELSE returned
    /\ UNCHANGED <<target, wordLimbs, input, buf>>

\* one call of read_option on the payload
ReadOption ==
    /\ target = "read_option"
    /\ LET r == read_option(buf, pos, wordLimbs) IN
        /\ ret' = [status |-> r.status, start |-> pos]
        /\ pos' = r.pos
        /\ returned' = IF r.status = "Ok"
                       THEN Append(returned, [code |-> r.code, data |-> r.data,
                                              start |-> pos, end |-> r.pos])
                       ELSE returned
    /\ UNCHANGED <<target, wordLimbs, input, buf>>

Decode(r) ==
    /\ ret.status = "none"
    /\ ret' = [status |-> r.status, block |-> r.block]
    /\ pos' = r.pos
    /\ UNCHANGED <<target, wordLimbs, input, buf, returned>>

ReadSectionHeader ==
    /\ target = "SectionHeaderBlock"
    /\ Decode(SectionHeaderBlock_read(buf, pos, wordLimbs))

ReadInterfaceDescription ==
    /\ target = "InterfaceDescriptionBlock"
    /\ Decode(InterfaceDescriptionBlock_read(buf, pos, wordLimbs))

ReadInterfaceStatistics ==
    /\ target = "InterfaceStatisticsBlock"
    /\ Decode(InterfaceStatisticsBlock_read(buf, pos, wordLimbs))

ReadEnhancedPacket ==
    /\ target = "EnhancedPacketBlock"
    /\ Decode(EnhancedPacketBlock_read(buf, pos, wordLimbs))

Next ==
    \/ Align
    \/ ReadBlock
    \/ ReadOption
    \/ ReadSectionHeader
    \/ ReadInterfaceDescription
    \/ ReadInterfaceStatistics
    \/ ReadEnhancedPacket

Spec == Init /\ [][Next]_vars

-----------------------------------------------------------------------------
(* What the input says, for the properties below: computed from the        *)
(* description in `input`, never from the decoder.                         *)

WordLess(a, b) ==
    \E i \in 1..Len(a) : a[i] < b[i] /\ \A j \in (i + 1)..Len(a) : a[j] = b[j]

Wide(w) == Append(w, 0)

IsMultipleOf4(w) == w[1] % 4 = 0

\* bytes a block declaring t occupies in the stream
Occupied(t) == 12 + Ceil4(PayloadLen(t))

RECURSIVE BlockStart(_, _)
BlockStart(in, k) ==
    IF k <= 1 THEN 0 ELSE BlockStart(in, k - 1) + Occupied(in.totals[k - 1])

\* offset of option record k from the first option record
RECURSIVE RecStart(_, _)
RecStart(in, k) ==
    IF k <= 1 THEN 0 ELSE RecStart(in, k - 1) + 4 + Ceil4(RecLen(in, k - 1))

FixedLen(t, in) == Len(FixedBytes(t, in))

KnownCodes(t) ==
    CASE t = "SectionHeaderBlock" -> 1..4
      [] t = "InterfaceDescriptionBlock" -> {1, 2, 3, 4, 6, 9, 12}
      [] t = "InterfaceStatisticsBlock" -> 1..8
      [] t = "EnhancedPacketBlock" -> {1}

TextOk(in, i) == ~(in.accent = i /\ RecLen(in, i) = 1)

\* record i is an option of the block type that decodes
ValidOption(t, in, i) ==
    LET c == in.codes[i]
        l == RecLen(in, i)
    IN  CASE t = "SectionHeaderBlock" -> c \in 1..4 /\ TextOk(in, i)
          [] t = "InterfaceDescriptionBlock" ->
                \/ c \in {1, 2, 3, 12} /\ TextOk(in, i)
                \/ c = 4 /\ l >= 8
                \/ c = 6 /\ l >= 6
                \/ c = 9 /\ l >= 1
          [] t = "InterfaceStatisticsBlock" ->
                \/ c = 1 /\ TextOk(in, i)
                \/ c \in 2..8 /\ l >= 8
          [] t = "EnhancedPacketBlock" -> c = 1 /\ TextOk(in, i)

\* index of the first code-0 record, or one past the last record
FirstZero(in) ==
    IF \E i \in 1..Len(in.codes) : in.codes[i] = 0
    THEN CHOOSE i \in 1..Len(in.codes) :
            in.codes[i] = 0 /\ \A j \in 1..(i - 1) : in.codes[j] # 0
    ELSE Len(in.codes) + 1

MagicOk(t, in) == t = "SectionHeaderBlock" => in.hdr # 3

ShbVariant(c) ==
    CASE c = 1 -> "Comment" [] c = 2 -> "Hardware" [] c = 3 -> "OS"
      [] c = 4 -> "UserApplication"

Decoded == target \in Decoders /\ ret.status # "none"

-----------------------------------------------------------------------------
\* the three largest words: n + 3 does not fit the word
Wraps(n) == WordLess(WrappingSub(MaxWord(Len(n)), 3), n)

(* C9 as stated: for every word n, dword_aligned(n) is the smallest        *)
(* multiple of 4 that is >= n: n itself when n % 4 = 0, strictly between n *)
(* and n + 4 otherwise, and dword_aligned(dword_aligned(n)) is the same.   *)
(* It fails for the three largest words, where n + 3 wraps.                *)
C9_SmallestMultipleForEveryWord ==
    (target = "dword_aligned" /\ Len(returned) = 2) =>
        LET n == input.n
            r == returned[1]
        IN  /\ IsMultipleOf4(r)
            /\ IsMultipleOf4(n) => r = n
            /\ ~IsMultipleOf4(n) =>
                    /\ WordLess(Wide(n), Wide(r))
                    /\ WordLess(Wide(r), WrappingAdd(Wide(n), 4))
            /\ returned[2] = r

(* C9 as amended: for every word n that is at most the largest word minus  *)
(* 3, dword_aligned(n) is the smallest multiple of 4 that is >= n (n when  *)
(* n % 4 = 0, strictly between n and n + 4 otherwise); for the three       *)
(* largest words the result is 0; for every n the result is a multiple of  *)
(* 4 and applying dword_aligned twice gives what applying it once gives.   *)
C9_SmallestMultipleUnlessWrapped ==
    (target = "dword_aligned" /\ Len(returned) = 2) =>
        LET n == input.n
            r == returned[1]
        IN  /\ IsMultipleOf4(r)
            /\ IsMultipleOf4(n) => r = n
            /\ (~IsMultipleOf4(n) /\ ~Wraps(n)) =>
                    /\ WordLess(Wide(n), Wide(r))
                    /\ WordLess(Wide(r), WrappingAdd(Wide(n), 4))
            /\ Wraps(n) => r = ZeroWord(Len(n))
            /\ returned[2] = r

C9_Witness ==
    /\ target = "dword_aligned"
    /\ wordLimbs = 4
    /\ Len(returned) = 2
    /\ input.n = WrappingSub(MaxWord(4), 5)
    /\ returned[1] = WrappingSub(MaxWord(4), 3)

-----------------------------------------------------------------------------
(* C7: every option record whose declared length L is not a multiple of 4  *)
(* makes read_option consume 4 + align4(L) bytes and return exactly the L  *)
(* value bytes, and the next record is read from the aligned offset after  *)
(* the padding (it returns the next record's code).                        *)
C7_PaddedOptionConsumed ==
    target = "read_option" =>
        \A k \in 1..Len(returned) :
            /\ returned[k].start = RecStart(input, k)
            /\ (k <= Len(input.codes) /\ RecLen(input, k) % 4 # 0) =>
                /\ returned[k].end - returned[k].start = 4 + Ceil4(RecLen(input, k))
                /\ Len(returned[k].data) = RecLen(input, k)
                /\ returned[k].data = RecValue(input, k)
                /\ returned[k].code = input.codes[k]
                /\ k < Len(returned) =>
                    /\ returned[k + 1].start = returned[k].start + 4 + Ceil4(RecLen(input, k))
                    /\ returned[k + 1].code =
                            (IF k < Len(input.codes) THEN input.codes[k + 1] ELSE 0)

C7_Witness ==
    /\ target = "read_option"
    /\ Len(returned) = 2
    /\ RecLen(input, 1) = 5
    /\ returned[1].end = 12
    /\ returned[2].start = 12
    /\ Len(returned[1].data) = 5

-----------------------------------------------------------------------------
ShbWellFormed ==
    /\ input.hdr # 3
    /\ input.cut = 0
    /\ (FirstZero(input) <= Len(input.codes) \/ input.term)
    /\ \A i \in 1..(FirstZero(input) - 1) : ValidOption(target, input, i)

(* C4: a well-formed Section Header payload (the magic, the versions, the  *)
(* section length, k option records with codes 1..4 and valid text, then a *)
(* code-0 record) decodes to the four fields as written and exactly the k  *)
(* options, each with its code's variant and its text, in payload order.   *)
C4_SectionHeaderDecoded ==
    (Decoded /\ target = "SectionHeaderBlock" /\ ShbWellFormed) =>
        /\ ret.status = "Ok"
        /\ ret.block.magic = FromNat(MAGIC, 2)
        /\ ret.block.major_version = ShbMajor(input)
        /\ ret.block.minor_version = ShbMinor(input)
        /\ ret.block.section_length = ShbSectionLength(input)
        /\ Len(ret.block.options) = FirstZero(input) - 1
        /\ \A i \in 1..(FirstZero(input) - 1) :
            ret.block.options[i] =
                [variant |-> ShbVariant(input.codes[i]), value |-> RecValue(input, i)]

C4_Witness ==
    /\ Decoded
    /\ target = "SectionHeaderBlock"
    /\ ShbWellFormed
    /\ input.hdr = 2
    /\ input.codes = <<3, 2>>
    /\ input.term
    /\ ret.status = "Ok"
    /\ Len(ret.block.options) = 2
    /\ ret.block.options[1].variant = "OS"
    /\ ret.block.options[2].variant = "Hardware"

-----------------------------------------------------------------------------
UnknownAt(j) ==
    /\ j \in 1..Len(input.codes)
    /\ input.codes[j] \notin KnownCodes(target) \cup {0}
    /\ \A i \in 1..(j - 1) : ValidOption(target, input, i)
    /\ FixedLen(target, input) + RecStart(input, j + 1) <= Len(buf)

(* C5: in each decoder, a complete option record whose code is neither 0   *)
(* nor one of the block type's options, reached after any number of valid *)
(* options and before any terminator, makes the decode return the          *)
(* unknown-option error and no block.                                      *)
C5_UnknownOptionFails ==
    (Decoded /\ MagicOk(target, input) /\ \E j \in 1..Len(input.codes) : UnknownAt(j)) =>
        /\ ret.status = "UnknownOption"
        /\ ret.block = <<>>

C5_Witness ==
    /\ Decoded
    /\ target = "InterfaceDescriptionBlock"
    /\ input.codes = <<12, 99>>
    /\ UnknownAt(2)
    /\ ret.status = "UnknownOption"
    /\ ret.block = <<>>

-----------------------------------------------------------------------------
ChainValid ==
    /\ MagicOk(target, input)
    /\ input.cut = 0
    /\ \A i \in 1..(FirstZero(input) - 1) : ValidOption(target, input, i)

(* C1 as stated: in each decoder the option loop stops at a code-0 record  *)
(* or when the payload is exhausted after a complete option record, and in *)
(* both cases the decode succeeds with the options read so far and no      *)
(* entry for code 0.  The code checks eof() once, before the loop: a       *)
(* payload that ends after an option record makes read_option fail.        *)
C1_StopsAtTerminatorOrExhaustion ==
    (Decoded /\ ChainValid) =>
        /\ ret.status = "Ok"
        /\ Len(ret.block.options) = FirstZero(input) - 1

-----------------------------------------------------------------------------
(* C2 as stated: when read_block has read a block type, a total_length,    *)
(* the padded payload and a trailing length that differs from              *)
(* total_length, it returns an error value: the mismatch is no assertion   *)
(* abort and no success.  Stated here for the blocks whose total_length is *)
(* at least 12, so that the wrapped lengths of C10 play no part.           *)
C2_MismatchIsAnErrorValue ==
    (/\ target = "read_block"
     /\ ret.status # "none"
     /\ ret.trailer # <<>>
     /\ Small(ret.total_len) >= 12
     /\ ret.trailer # ret.total_len) => ret.status \in {"Io", "FramingError"}

-----------------------------------------------------------------------------
(* C3 as stated: a payload whose first 4-byte little-endian field is not   *)
(* 0x1A2B3C4D makes SectionHeaderBlock::read return an error result to the *)
(* caller, never a Section Header value.                                   *)
C3_BadMagicIsAnErrorResult ==
    (/\ Decoded
     /\ target = "SectionHeaderBlock"
     /\ input.hdr = 3
     /\ Len(buf) >= 4) => ret.status \in {"Io", "UnknownOption", "Utf8Error", "FormatError"}

-----------------------------------------------------------------------------
-----------------------------------------------------------------------------
\* the call that produced ret, counted from 1
LastCall == Len(returned) + (IF ret.status = "Ok" THEN 0 ELSE 1)

\* bytes the block at the last call's start needs: any block needs 12
Needed ==
    IF LastCall <= Len(input.totals) /\ ret.start = BlockStart(input, LastCall)
    THEN Occupied(input.totals[LastCall])
    ELSE 12

(* C8: when the stream ends before the header, the padded payload and the  *)
(* trailing length of the block have been read, read_block returns the     *)
(* I/O error; a success never has a payload shorter than total_length - 12 *)
(* and never comes from a stream shorter than the block.                   *)
C8_ShortStreamIsIoError ==
    (target = "read_block" /\ ret.status # "none") =>
        /\ Len(buf) - ret.start < Needed => ret.status = "Io"
        /\ ret.status = "Ok" =>
            /\ Len(returned[LastCall].data) >= input.totals[LastCall] - 12
            /\ ret.start + Occupied(input.totals[LastCall]) <= Len(buf)

C8_Witness ==
    /\ target = "read_block"
    /\ input.totals = <<16, 14>>
    /\ input.cut = 1
    /\ Len(returned) = 1
    /\ ret.status = "Io"
    /\ ret.start = 16
    /\ Len(buf) - ret.start < Needed

-----------------------------------------------------------------------------
(* C10 as stated: a declared total_length below 12 never lets read_block   *)
(* return a success, on a 32-bit or a 64-bit build.  On a 32-bit build     *)
(* total_length 9, 10 and 11 wrap to a read length of 0.                   *)
C10_ShortTotalLengthNeverSucceeds ==
    (target = "read_block" /\ ret.status = "Ok") =>
        Small(ret.total_len) \notin 0..11

====
